---- MODULE Spec2Model ----
(***************************************************************************)
(* A model of the flights MCP server (src/flights.py): the four tools      *)
(* get_general_flights_info, get_cheapest_flights, get_best_flights and    *)
(* get_time_filtered_flights, the formatter format_flight_info, and the    *)
(* one await point of every tool (asyncio.to_thread on the backend call).  *)
(*                                                                         *)
(* Python strings are TLA+ strings (Len, SubSeq and \o work on them in     *)
(* TLC); Python lists are sequences; a flight dict is a record.  The only  *)
(* whitespace character of the modelled alphabet is the space.             *)
(***************************************************************************)
EXTENDS Integers, Sequences, FiniteSets, TLC

(***************************************************************************)
(* Python string primitives used by the source.                            *)
(***************************************************************************)

\* s[i] with a 0-based index i < len(s)
Char(s, i) == SubSeq(s, i + 1, i + 1)

\* s.endswith(suffix)
endswith(s, suffix) ==
    /\ Len(suffix) <= Len(s)
    /\ SubSeq(s, Len(s) - Len(suffix) + 1, Len(s)) = suffix

RECURSIVE rstrip(_, _)
\* s.rstrip(c) for a single character c
rstrip(s, c) ==
    IF Len(s) > 0 /\ SubSeq(s, Len(s), Len(s)) = c
    THEN rstrip(SubSeq(s, 1, Len(s) - 1), c)
    ELSE s

RECURSIVE remove(_, _)
\* s.replace(c, '') for a single character c
remove(s, c) ==
    IF Len(s) = 0 THEN ""
    ELSE IF SubSeq(s, 1, 1) = c
         THEN remove(SubSeq(s, 2, Len(s)), c)
         ELSE SubSeq(s, 1, 1) \o remove(SubSeq(s, 2, Len(s)), c)

RECURSIVE SplitFrom(_, _, _)
SplitFrom(s, i, cur) ==
    IF i > Len(s) THEN <<cur>>
    ELSE IF SubSeq(s, i, i) = " "
         THEN <<cur>> \o SplitFrom(s, i + 1, "")
         ELSE SplitFrom(s, i + 1, cur \o SubSeq(s, i, i))

\* s.split(" "): cut at every single space, empty pieces kept
split_sep(s) == SplitFrom(s, 1, "")

\* s.split(): cut at runs of whitespace, no empty pieces
split(s) == SelectSeq(split_sep(s), LAMBDA t : t # "")

\* index (1-based) of the first occurrence of the character c in s, 0 if none
RECURSIVE FindFrom(_, _, _)
FindFrom(s, c, i) ==
    IF i > Len(s) THEN 0
    ELSE IF SubSeq(s, i, i) = c THEN i ELSE FindFrom(s, c, i + 1)

Find(s, c) == FindFrom(s, c, 1)

Digits == {"0", "1", "2", "3", "4", "5", "6", "7", "8", "9"}

DigitVal(c) ==
    CASE c = "0" -> 0 [] c = "1" -> 1 [] c = "2" -> 2 [] c = "3" -> 3
      [] c = "4" -> 4 [] c = "5" -> 5 [] c = "6" -> 6 [] c = "7" -> 7
      [] c = "8" -> 8 [] c = "9" -> 9

\* s is a non-empty run of decimal digits
IsDigits(s) ==
    /\ Len(s) > 0
    /\ \A i \in 1..Len(s) : SubSeq(s, i, i) \in Digits

RECURSIVE DigitsVal(_)
DigitsVal(s) ==
    IF Len(s) = 0 THEN 0
    ELSE 10 * DigitsVal(SubSeq(s, 1, Len(s) - 1)) + DigitVal(SubSeq(s, Len(s), Len(s)))

(***************************************************************************)
(* Outcomes of a Python call: a returned value or a raised exception.      *)
(***************************************************************************)

Return(v) == [kind |-> "return", value |-> v, exc |-> "", detail |-> ""]

Raise(e, d) == [kind |-> "raise", value |-> <<>>, exc |-> e, detail |-> d]

\* Exception classes of the model and the two bases the tools catch by name.
RequestErrors == {"httpx.RequestError", "httpx.ConnectError"}

ValueErrors == {"ValueError", "json.JSONDecodeError"}

OtherErrors == {"IndexError", "TypeError", "RuntimeError"}

(***************************************************************************)
(* datetime.strptime(s, '%I:%M %p').time()                                 *)
(* The format compiles to the regular expression                           *)
(*   (1[0-2]|0[1-9]|[1-9]):([0-5]\d|\d)\s+(am|pm)   (case-insensitive)     *)
(* matched at the start of s; text left after the match is an error too.   *)
(* A parsed time of day is its minute of the day, 0..1439.                 *)
(***************************************************************************)

HourOf(h) ==
    IF IsDigits(h) /\ Len(h) <= 2 /\ DigitsVal(h) \in 1..12 THEN DigitsVal(h) ELSE 0

MinuteOk(m) ==
    /\ IsDigits(m)
    /\ \/ Len(m) = 1
       \/ Len(m) = 2 /\ DigitVal(SubSeq(m, 1, 1)) <= 5

RECURSIVE lstrip(_)
lstrip(s) ==
    IF Len(s) > 0 /\ SubSeq(s, 1, 1) = " " THEN lstrip(SubSeq(s, 2, Len(s))) ELSE s

IsAM(p) == p \in {"AM", "am", "Am", "aM"}

IsPM(p) == p \in {"PM", "pm", "Pm", "pM"}

NoMatch(s) ==
    Raise("ValueError", "time data '" \o s \o "' does not match format '%I:%M %p'")

\* The hour of the day of a 12-hour clock hour and its AM/PM mark
Hour24(hour, am) ==
    IF am THEN (IF hour = 12 THEN 0 ELSE hour)
    ELSE (IF hour = 12 THEN 12 ELSE hour + 12)

\* (am|pm), then the end of the string
strptime_p(s, hour, m, p, left) ==
    IF ~(IsAM(p) \/ IsPM(p)) THEN NoMatch(s)
    ELSE IF left # "" THEN Raise("ValueError", "unconverted data remains: " \o left)
    ELSE Return(60 * Hour24(hour, IsAM(p)) + DigitsVal(m))

\* \s+ and what follows it
strptime_s(s, hour, m, tail) ==
    IF ~MinuteOk(m) THEN NoMatch(s)
    ELSE strptime_p(s, hour, m, SubSeq(tail, 1, 2), SubSeq(tail, 3, Len(tail)))

\* ([0-5]\d|\d), which ends at the first space of the rest
strptime_M(s, hour, rest, sp) ==
    IF hour = 0 \/ sp = 0 THEN NoMatch(s)
    ELSE strptime_s(s, hour, SubSeq(rest, 1, sp - 1), lstrip(SubSeq(rest, sp, Len(rest))))

\* (1[0-2]|0[1-9]|[1-9]) and ':', which is the first colon of s
strptime_I(s, colon, rest) ==
    IF colon = 0 THEN NoMatch(s)
    ELSE strptime_M(s, HourOf(SubSeq(s, 1, colon - 1)), rest, Find(rest, " "))

strptime_at(s, colon) == strptime_I(s, colon, SubSeq(s, colon + 1, Len(s)))

strptime(s) == strptime_at(s, Find(s, ":"))

(***************************************************************************)
(* format_flight_info and its nested expand_date                           *)
(***************************************************************************)

month_map(a) ==
    CASE a = "Jan" -> "January" [] a = "Feb" -> "February" [] a = "Mar" -> "March"
      [] a = "Apr" -> "April" [] a = "May" -> "May" [] a = "Jun" -> "June"
      [] a = "Jul" -> "July" [] a = "Aug" -> "August" [] a = "Sep" -> "September"
      [] a = "Oct" -> "October" [] a = "Nov" -> "November" [] a = "Dec" -> "December"
      [] OTHER -> a

day_map(a) ==
    CASE a = "Mon" -> "Monday" [] a = "Tue" -> "Tuesday" [] a = "Wed" -> "Wednesday"
      [] a = "Thu" -> "Thursday" [] a = "Fri" -> "Friday" [] a = "Sat" -> "Saturday"
      [] a = "Sun" -> "Sunday"
      [] OTHER -> a

\* day_with_suffix without the exception for 11, 12 and 13.
day_with_suffix_no_teens(day) ==
    day \o (IF endswith(day, "1") THEN "st"
            ELSE IF endswith(day, "2") THEN "nd"
            ELSE IF endswith(day, "3") THEN "rd"
            ELSE "th")

\* day + ordinal suffix, the conditional expression of lines 138-141
day_with_suffix(day) ==
    day \o (IF ~(endswith(day, "1") \/ endswith(day, "2") \/ endswith(day, "3"))
               \/ (endswith(day, "11") \/ endswith(day, "12") \/ endswith(day, "13"))
            THEN "th"
            ELSE IF endswith(day, "1") THEN "st"
            ELSE IF endswith(day, "2") THEN "nd"
            ELSE IF endswith(day, "3") THEN "rd"
            ELSE "th")

\* parts[0], parts[1], parts[3], parts[4], parts[5] of parts = date_str.split():
\* fewer than six tokens is an IndexError
expand_parts(parts) ==
    IF Len(parts) < 6 THEN Raise("IndexError", "list index out of range")
    ELSE Return(parts[1] \o " " \o parts[2] \o " on " \o day_map(rstrip(parts[4], ","))
                \o ", " \o month_map(parts[5]) \o " " \o day_with_suffix(parts[6]))

expand_date(date_str) == expand_parts(split(date_str))

\* The rewrite limited to durations spelled with the words "hours" and "minutes".
duration_parts_formatted_words(duration, duration_parts) ==
    IF Len(duration_parts) = 4 /\ duration_parts[2] = "hours" /\ duration_parts[4] = "minutes"
    THEN duration_parts[1] \o " hours and " \o duration_parts[3] \o " minutes"
    ELSE duration

duration_parts_formatted(duration, duration_parts) ==
    IF Len(duration_parts) = 4
    THEN duration_parts[1] \o " hours and " \o duration_parts[3] \o " minutes"
    ELSE duration

duration_formatted(duration) == duration_parts_formatted(duration, split(duration))

stops_text(stops) ==
    IF stops > 0
    THEN ToString(stops) \o " stop" \o (IF stops # 1 THEN "s" ELSE "")
    ELSE "non-stop"

best_flight_qualifier(is_best) ==
    IF is_best THEN "considered one of the best options by Google Flights"
    ELSE "an available option"

\* formatted_string, given the two expanded dates (or the exception the
\* first failing expansion raised)
formatted_string(flight_data, origin_airport, destination_airport, dep, arr) ==
    IF dep.kind = "raise" THEN dep
    ELSE IF arr.kind = "raise" THEN arr
    ELSE Return(
        "This flight departs at " \o dep.value \o " from " \o origin_airport
        \o ", local time, and arrives at " \o arr.value \o " in "
        \o destination_airport \o ", local time. The flight is operated by "
        \o flight_data.name \o " and has a duration of "
        \o duration_formatted(flight_data.duration) \o " with "
        \o stops_text(flight_data.stops) \o " in between. And it's price is "
        \o flight_data.price \o " and is "
        \o best_flight_qualifier(flight_data.is_best) \o "!")

format_flight_info(flight_data, origin_airport, destination_airport) ==
    formatted_string(flight_data, origin_airport, destination_airport,
                     expand_date(flight_data.departure), expand_date(flight_data.arrival))

(***************************************************************************)
(* get_cheapest_flights: get_price_value and sorted(all_flights, key=...)  *)
(***************************************************************************)

\* float('inf'), and the float of a decimal numeral in hundredths.
Inf == [inf |-> TRUE, cents |-> 0]

Finite(c) == [inf |-> FALSE, cents |-> c]

\* a < b on the floats above (inf < inf is false)
FloatLess(a, b) == ~a.inf /\ (b.inf \/ a.cents < b.cents)

\* float(s) for the numerals this model reads: digits, optionally followed by
\* '.' and at most two digits; anything else is the ValueError of float().
float_parts(s, ip, fp) ==
    IF IsDigits(ip) /\ Len(fp) <= 2 /\ (fp = "" \/ IsDigits(fp))
    THEN Return(100 * DigitsVal(ip)
                + (IF Len(fp) = 1 THEN 10 * DigitsVal(fp) ELSE DigitsVal(fp)))
    ELSE Raise("ValueError", "could not convert string to float: '" \o s \o "'")

float_at(s, dot) ==
    IF dot = 0 THEN float_parts(s, s, "")
    ELSE float_parts(s, SubSeq(s, 1, dot - 1), SubSeq(s, dot + 1, Len(s)))

float(s) == float_at(s, Find(s, "."))

\* try: return float(price_str) / except (ValueError, TypeError): return inf
float_or_inf(parsed) == IF parsed.kind = "return" THEN Finite(parsed.value) ELSE Inf

get_price_value(flight) ==
    IF flight.price = "" \/ flight.price = "Price unavailable" THEN Inf
    ELSE float_or_inf(float(remove(remove(flight.price, "$"), ",")))

\* SortedPlace with equal keys placed in reverse input order.
SortedPlaceTiesReversed(key, k) ==
    1 + Cardinality({j \in DOMAIN key :
                        \/ FloatLess(key[j], key[k])
                        \/ j > k /\ ~FloatLess(key[k], key[j])})

\* The place sorted() gives the k-th element: behind every element with a
\* smaller key and, the sort being stable, behind the earlier ones with an
\* equal key (keys a, b are equal when neither a < b nor b < a).
SortedPlace(key, k) ==
    1 + Cardinality({j \in DOMAIN key :
                        \/ FloatLess(key[j], key[k])
                        \/ j < k /\ ~FloatLess(key[k], key[j])})

sorted_by(flights, key) ==
    [p \in DOMAIN flights |->
        flights[CHOOSE k \in DOMAIN flights : SortedPlace(key, k) = p]]

\* sorted(all_flights, key=get_price_value)
sorted(flights) ==
    sorted_by(flights, [k \in DOMAIN flights |-> get_price_value(flights[k])])

(***************************************************************************)
(* Pieces shared by the four tools                                         *)
(***************************************************************************)

\* The fixed cap of the cheapest, best and time-filtered tools.
MaxFlights == 30

Min(a, b) == IF a <= b THEN a ELSE b

Max(a, b) == IF a >= b THEN a ELSE b

\* lst[0:stop] of Python: a negative stop counts from the end
SliceTo(lst, stop) ==
    LET n == Len(lst)
        e == IF stop < 0 THEN Max(n + stop, 0) ELSE Min(stop, n)
    IN  SubSeq(lst, 1, e)

MsgCodes == "Origin and destination must be 3 characters."

MsgDate == "Departure date must be in YYYY-MM-DD format."

MsgTrip == "Trip type must be either 'one-way' or 'round-trip'."

MsgSeat == "Seat type must be either 'economy', 'premium-economy', 'business', or 'first'."

MsgState == "State must be either 'before' or 'after'."

MsgTime == "Invalid time format. Please use HH:MM AM/PM format (e.g., '7:00 PM')."

MsgNoData == "No flight data available for the specified route and dates."

MsgNoFlights == "No flights found for the specified route and dates."

MsgNoBest == "No best flights found for the specified route and dates."

MsgConnect == "Unable to connect to the flight search service. Please try again later."

MsgInvalidData(detail) == "Invalid data received: " \o detail

MsgUnexpected(detail) ==
    "An unexpected error occurred while searching for flights: " \o detail

MsgNoneInWindow(state, target_time_str) ==
    "No flights found " \o state \o " " \o target_time_str
    \o " for the specified route and dates."

HeaderGeneral(current_price) ==
    "The current overall flight prices for this route and time are: "
    \o current_price \o "."

HeaderCheapest == "Here are the cheapest flights for this route and time: "

HeaderBest == "Here are the best flights for this route and time: "

HeaderTime(state, target_time_str) ==
    "Here are the time-filtered flights "
    \o (IF state = "before" THEN "before" ELSE "on or after")
    \o " " \o target_time_str \o ": "

\* validate with the date check moved in front of the airport-code check.
validate_date_first(q) ==
    IF \/ Len(q.departure_date) # 10
       \/ Char(q.departure_date, 4) # "-"
       \/ Char(q.departure_date, 7) # "-" THEN <<MsgDate>>
    ELSE IF Len(q.origin) # 3 \/ Len(q.destination) # 3 THEN <<MsgCodes>>
    ELSE IF q.trip_type # "one-way" /\ q.trip_type # "round-trip" THEN <<MsgTrip>>
    ELSE IF /\ q.seat # "economy" /\ q.seat # "premium-economy"
            /\ q.seat # "business" /\ q.seat # "first" THEN <<MsgSeat>>
    ELSE <<>>

\* The four checks every tool starts with, before its try block:
\* <<>> when all pass, else the one-element list the tool returns.
validate(q) ==
    IF Len(q.origin) # 3 \/ Len(q.destination) # 3 THEN <<MsgCodes>>
    ELSE IF \/ Len(q.departure_date) # 10
            \/ Char(q.departure_date, 4) # "-"
            \/ Char(q.departure_date, 7) # "-" THEN <<MsgDate>>
    ELSE IF q.trip_type # "one-way" /\ q.trip_type # "round-trip" THEN <<MsgTrip>>
    ELSE IF /\ q.seat # "economy" /\ q.seat # "premium-economy"
            /\ q.seat # "business" /\ q.seat # "first" THEN <<MsgSeat>>
    ELSE <<>>

\* get_time_filtered_flights adds the state check (before its try block) and
\* the target-time parse (first statement inside it).
validate_state_time(q, rejected) ==
    IF rejected # <<>> THEN rejected
    ELSE IF q.state # "before" /\ q.state # "after" THEN <<MsgState>>
    ELSE IF strptime(q.target_time_str).kind = "raise" THEN <<MsgTime>>
    ELSE <<>>

validate_time(q) == validate_state_time(q, validate(q))

\* What a tool returns before it reaches create_filter; <<>> when it goes on.
rejection(q) == IF q.tool = "time" THEN validate_time(q) ELSE validate(q)

\* FlightData, Passengers and create_filter: the argument of the backend call.
create_filter(q) ==
    [date |-> q.departure_date, from_airport |-> q.origin,
     to_airport |-> q.destination, trip |-> q.trip_type, seat |-> q.seat]

\* dataclasses.asdict: a dict of the object's fields, a TypeError for None.
asdict(obj) ==
    IF obj.type = "None"
    THEN Raise("TypeError", "asdict() should be called on dataclass instances")
    ELSE Return([keys |-> obj.fields, current_price |-> obj.current_price,
                 flights |-> obj.flights])

\* The values of a list of outcomes, or the first exception among them.
values_or_first_raise(outs) ==
    IF \A k \in DOMAIN outs : outs[k].kind = "return"
    THEN Return([k \in DOMAIN outs |-> outs[k].value])
    ELSE outs[CHOOSE k \in DOMAIN outs :
                 /\ outs[k].kind = "raise"
                 /\ \A j \in 1..(k - 1) : outs[j].kind = "return"]

\* format_all keeping the lines built before the first failing record.
format_all_partial(flights, origin_airport, destination_airport) ==
    Return(SelectSeq(
        [k \in DOMAIN flights |->
            IF \A j \in 1..k : format_flight_info(flights[j], origin_airport,
                                                  destination_airport).kind = "return"
            THEN format_flight_info(flights[k], origin_airport, destination_airport).value
            ELSE ""],
        LAMBDA l : l # ""))

\* The for-loop that appends format_flight_info(flight, ...) to flight_info:
\* the list of lines, or the first exception a record raises.
format_all(flights, origin_airport, destination_airport) ==
    values_or_first_raise(
        [k \in DOMAIN flights |->
            format_flight_info(flights[k], origin_airport, destination_airport)])

\* output = [header] + flight_info
prepend(header, flight_info) ==
    IF flight_info.kind = "raise" THEN flight_info
    ELSE Return(<<header>> \o flight_info.value)

assemble(header, top_n, q) ==
    prepend(header, format_all(top_n, q.origin, q.destination))

\* flight_time of one record: parts = departure.split(" "), then
\* strptime(parts[0] + " " + parts[1], '%I:%M %p')
parts_time(parts) ==
    IF Len(parts) < 2 THEN Raise("IndexError", "list index out of range")
    ELSE strptime(parts[1] \o " " \o parts[2])

flight_time(flight) == parts_time(split_sep(flight.departure))

\* in_window with the boundary on the "before" side.
in_window_boundary_before(state, time, target_time) ==
    IF state = "before" THEN time <= target_time ELSE time > target_time

\* The comparison that decides whether a record is appended to valid_flights
in_window(state, time, target_time) ==
    IF state = "before" THEN time < target_time ELSE time >= target_time

\* The records in the window, or the first exception among the parsed times
keep_in_window(all_flights, time, state, target_time) ==
    IF \E k \in DOMAIN time : time[k].kind = "raise"
    THEN values_or_first_raise(time)
    ELSE Return(SelectSeq(
             [k \in DOMAIN all_flights |-> <<all_flights[k], time[k].value>>],
             LAMBDA ft : in_window(state, ft[2], target_time)))

\* valid_flights paired with their departure times
time_filter_pairs(all_flights, state, target_time) ==
    keep_in_window(all_flights, [k \in DOMAIN all_flights |-> flight_time(all_flights[k])],
                   state, target_time)

first_of_pairs(pairs) ==
    IF pairs.kind = "raise" THEN pairs
    ELSE Return([k \in DOMAIN pairs.value |-> pairs.value[k][1]])

\* The selection loop of get_time_filtered_flights: valid_flights, or the
\* first exception raised while reading a record's departure time.
time_filter(all_flights, state, target_time) ==
    first_of_pairs(time_filter_pairs(all_flights, state, target_time))

\* best_filter that keeps every record.
best_filter_keep_all(all_flights) == all_flights

\* The flights with is_best set, in order
best_filter(all_flights) == SelectSeq(all_flights, LAMBDA f : f.is_best)

\* What a tool body yields: the outcome of the try block and the last values
\* of its locals: the selection before the cap (all_flights,
\* price_sorted_flights, best_flights, valid_flights) and top_n_flights
\* (<<>> when never assigned).
Yield(out, sel, top_n) == [out |-> out, selection |-> sel, top_n |-> top_n]

\* From top_n_flights to the return of the try block
finish(q, header, sel, top_n) == Yield(assemble(header, top_n, q), sel, top_n)

\* The selection formatted whole, without the slice.
capped_no_slice(q, header, sel) == finish(q, header, sel, sel)

\* top_n_flights = sel[0: min(30, len(sel))] and on
capped(q, header, sel) == finish(q, header, sel, SliceTo(sel, Min(MaxFlights, Len(sel))))

general_body(q, all_flights, current_price) ==
    finish(q, HeaderGeneral(current_price), all_flights,
           SliceTo(all_flights, Min(q.n_flights, Len(all_flights))))

cheapest_body(q, all_flights) == capped(q, HeaderCheapest, sorted(all_flights))

best_selected(q, best_flights) ==
    IF Len(best_flights) = 0 THEN Yield(Return(<<MsgNoBest>>), <<>>, <<>>)
    ELSE capped(q, HeaderBest, best_flights)

best_body(q, all_flights) == best_selected(q, best_filter(all_flights))

time_selected(q, valid_flights) ==
    IF valid_flights.kind = "raise" THEN Yield(valid_flights, <<>>, <<>>)
    ELSE IF Len(valid_flights.value) = 0
    THEN Yield(Return(<<MsgNoneInWindow(q.state, q.target_time_str)>>), <<>>, <<>>)
    ELSE capped(q, HeaderTime(q.state, q.target_time_str), valid_flights.value)

time_body(q, all_flights) ==
    time_selected(q, time_filter(all_flights, q.state, strptime(q.target_time_str).value))

\* The mode-specific part of a tool, reached with a non-empty all_flights
mode_body(q, all_flights, current_price) ==
    CASE q.tool = "general" -> general_body(q, all_flights, current_price)
      [] q.tool = "cheapest" -> cheapest_body(q, all_flights)
      [] q.tool = "best" -> best_body(q, all_flights)
      [] q.tool = "time" -> time_body(q, all_flights)

\* after_asdict without the check for an empty flight list.
after_asdict_no_empty_check(q, result) ==
    IF result.kind = "raise" THEN Yield(result, <<>>, <<>>)
    ELSE IF result.value.keys = {} \/ "flights" \notin result.value.keys
    THEN Yield(Return(<<MsgNoData>>), <<>>, <<>>)
    ELSE mode_body(q, result.value.flights, result.value.current_price)

\* From `if not result or "flights" not in result` on
after_asdict(q, result) ==
    IF result.kind = "raise" THEN Yield(result, <<>>, <<>>)
    ELSE IF result.value.keys = {} \/ "flights" \notin result.value.keys
    THEN Yield(Return(<<MsgNoData>>), <<>>, <<>>)
    ELSE IF Len(result.value.flights) = 0 THEN Yield(Return(<<MsgNoFlights>>), <<>>, <<>>)
    ELSE mode_body(q, result.value.flights, result.value.current_price)

\* The try block from the statement after the await on: `got` is what
\* asyncio.to_thread(get_flights_from_filter, ...) returned or raised.
after_await(q, got) ==
    IF got.kind = "raise" THEN Yield(got, <<>>, <<>>)
    ELSE after_asdict(q, asdict(got.value))

\* except without its last clause: an exception of another class escapes.
except_no_catch_all(out) ==
    IF out.kind = "return" THEN out
    ELSE IF out.exc \in RequestErrors THEN Return(<<MsgConnect>>)
    ELSE IF out.exc \in ValueErrors THEN Return(<<MsgInvalidData(out.detail)>>)
    ELSE out

\* The three except clauses that close every tool's try block.
except(out) ==
    IF out.kind = "return" THEN out
    ELSE IF out.exc \in RequestErrors THEN Return(<<MsgConnect>>)
    ELSE IF out.exc \in ValueErrors THEN Return(<<MsgInvalidData(out.detail)>>)
    ELSE Return(<<MsgUnexpected(out.detail)>>)

(***************************************************************************)
(* Inputs: the queries a caller may send and what the backend may answer.  *)
(***************************************************************************)

\* Longest backend list built from FlightPool.
MaxLen == 3

\* Largest small n_flights a caller asks for (besides the default).
MaxRequested == 2

\* The default of n_flights.
DefaultNFlights == 40

\* Concurrent invocations the scheduler holds.
NumInvocations == 2

Invocations == 1..NumInvocations

Query(tool, origin, destination, departure_date, trip_type, seat, state, target_time_str, n_flights) ==
    [tool |-> tool, origin |-> origin, destination |-> destination,
     departure_date |-> departure_date, trip_type |-> trip_type, seat |-> seat,
     state |-> state, target_time_str |-> target_time_str, n_flights |-> n_flights]

NoQuery == Query("", "", "", "", "", "", "", "", 0)

Origins == {"JFK", "JF"}

Destinations == {"FCO", "FCOO"}

Dates == {"2025-04-05", "2025-1-5", "2025/04/05", "2025-04/05"}

TripTypes == {"one-way", "multi-city"}

Seats == {"economy", "coach"}

States == {"before", "after", "during"}

TargetTimes == {"7:00 PM", "9:40 AM", "19:00"}

NFlightsChoices == {-1} \cup 0..MaxRequested \cup {DefaultNFlights}

\* Every combination of a good or bad value per argument; state, target time
\* and n_flights only where the tool has the parameter.
GridQueries ==
    UNION {
        {Query("general", o, d, dt, tr, se, "", "", n) : n \in NFlightsChoices}
        \cup {Query("cheapest", o, d, dt, tr, se, "", "", DefaultNFlights),
              Query("best", o, d, dt, tr, se, "", "", DefaultNFlights)}
        \cup {Query("time", o, d, dt, tr, se, st, tt, DefaultNFlights) :
                  st \in States, tt \in TargetTimes}
        : o \in Origins, d \in Destinations, dt \in Dates, tr \in TripTypes, se \in Seats}

\* The other accepted enum values and a few more malformed target times.
ExtraQueries ==
    {Query("cheapest", "JFK", "FCO", "2025-04-05", "round-trip", se, "", "", DefaultNFlights) :
        se \in {"premium-economy", "business", "first"}}
    \cup {Query("time", "JFK", "FCO", "2025-04-05", "one-way", "economy", "after", tt,
                DefaultNFlights) : tt \in {"7:00PM", "7 PM", "", "13:00 PM", "12:00 am"}}

Queries == GridQueries \cup ExtraQueries

Flight(departure, arrival, duration, price, stops, name, is_best) ==
    [departure |-> departure, arrival |-> arrival, duration |-> duration,
     price |-> price, stops |-> stops, name |-> name, is_best |-> is_best]

F1 == Flight("9:40 AM on Sat, Apr 5", "2:15 PM on Sat, Apr 5", "4 hr 35 min",
             "$320", 0, "Delta", TRUE)

F2 == Flight("7:00 PM on Sat, Apr 5", "8:05 AM on Sun, Apr 6", "13 hr 5 min",
             "$1,050", 1, "ITA", FALSE)

F3 == Flight("11:15 PM on Sat, Apr 5", "1:30 PM on Sun, Apr 6", "8 hr 15 min",
             "$320", 2, "United", TRUE)

F4 == Flight("6:05 AM on Sat, Apr 5", "10:45 PM on Sat, Apr 5", "16 hr 40 min",
             "Price unavailable", 1, "Lufthansa", FALSE)

\* A departure string without the third token the formatter skips.
F5 == Flight("9:40 AM Sat, Apr 5", "2:15 PM on Sat, Apr 5", "4 hr 35 min",
             "$99", 0, "Norse", TRUE)

\* A price float() rejects.
F6 == Flight("12:30 PM on Sat, Apr 5", "3:10 AM on Sun, Apr 6", "14h40m",
             "N/A", 3, "TAP", FALSE)

\* A departure string of a single token.
FShort == Flight("9:40", "2:15 PM on Sat, Apr 5", "4 hr 35 min", "$80", 0, "Iberia", TRUE)

\* A departure string whose first two tokens are no clock time.
FBadTime == Flight("Departs 9:40 AM on Sat, Apr", "2:15 PM on Sat, Apr 5",
                   "4 hr 35 min", "$70", 0, "KLM", TRUE)

\* A departure string with a weekday and a month that are no abbreviations.
FUnknownDay == Flight("9:40 AM on Sab, Apx 5", "2:15 PM on Sat, Apr 5",
                      "4 hr 35 min", "$320", 0, "Vueling", TRUE)

FlightPool == {F1, F2, F3, F4, F5, F6}

PoolLists == UNION {[1..n -> FlightPool] : n \in 1..MaxLen}

\* A backend list longer than the cap, every record distinct.
LongFlight(k) ==
    Flight((IF k % 2 = 0 THEN "8:00 AM" ELSE "7:00 PM") \o " on Sat, Apr 5",
           "9:00 AM on Sun, Apr 6", "9 hr 0 min", "$" \o ToString(900 - 10 * k),
           k % 3, "Carrier " \o ToString(k), k % 3 # 0)

LongList == [k \in 1..(2 * MaxFlights + 3) |-> LongFlight(k)]

DriftLists ==
    {<<FShort>>, <<F1, FShort>>, <<FBadTime>>, <<F2, FBadTime, F1>>, <<F1, F2, F5, F3>>,
     <<FUnknownDay>>}

\* What get_flights_from_filter hands back: a Result, or an object the
\* guard `not result or "flights" not in result` is written for.
ResultObj(current_price, flights) ==
    [type |-> "Result", fields |-> {"current_price", "flights"},
     current_price |-> current_price, flights |-> flights]

NoneObj == [type |-> "None", fields |-> {}, current_price |-> "", flights |-> <<>>]

NoFlightsFieldObj ==
    [type |-> "Other", fields |-> {"current_price"}, current_price |-> "low",
     flights |-> <<>>]

BackendFailures ==
    {Raise("httpx.RequestError", "request failed"),
     Raise("httpx.ConnectError", "All connection attempts failed"),
     Raise("ValueError", "bad payload"),
     Raise("json.JSONDecodeError", "Expecting value: line 1 column 1 (char 0)"),
     Raise("RuntimeError", "No flights found"),
     Raise("TypeError", "'NoneType' object is not iterable")}

BackendOutcomes ==
    BackendFailures
    \cup {Return(NoneObj), Return(NoFlightsFieldObj), Return(ResultObj("typical", <<>>))}
    \cup {Return(ResultObj("typical", fl)) : fl \in PoolLists \cup DriftLists \cup {LongList}}
    \cup {Return(ResultObj(p, <<F1, F2, F3>>)) : p \in {"low", "high", ""}}

\* Largest day of the month in a display date.
MaxDay == 31

Weekdays == {"Mon", "Tue", "Wed", "Thu", "Fri", "Sat", "Sun"}

Months == {"Jan", "Feb", "Mar", "Apr", "May", "Jun", "Jul", "Aug", "Sep", "Oct", "Nov", "Dec"}

ClockTimes == {"9:40 AM", "2:15 PM"}

\* The parts of a display date and its shape: "five" is
\* "<time> <weekday>, <month> <day>", "six" has one more token after the time,
\* "<time> on <weekday>, <month> <day>".
DisplayDate(time, weekday, month, day, shape) ==
    [time |-> time, weekday |-> weekday, month |-> month, day |-> day, shape |-> shape]

NoDate == DisplayDate("", "", "", 0, "")

DisplayDates ==
    {DisplayDate(t, w, m, d, sh) :
        t \in ClockTimes, w \in Weekdays, m \in Months, d \in 1..MaxDay,
        sh \in {"five", "six"}}

\* The display string of a display date
date_str(dd) ==
    dd.time \o (IF dd.shape = "six" THEN " on " ELSE " ") \o dd.weekday \o ", "
    \o dd.month \o " " \o ToString(dd.day)

\* Most tokens in a duration display string.
MaxTokens == 5

DurationTokens == {"4", "hours", "30", "minutes", "hr", "min", "4h30m"}

\* The token sequences of the duration display strings.
DurationInputs == UNION {[1..n -> DurationTokens] : n \in 0..MaxTokens}

NoDuration == <<"-">>

\* The display string of a token sequence: its tokens with single blanks between.
RECURSIVE duration_str(_)
duration_str(tokens) ==
    IF tokens = <<>> THEN ""
    ELSE IF Len(tokens) = 1 THEN tokens[1]
    ELSE tokens[1] \o " " \o duration_str(Tail(tokens))

(***************************************************************************)
(* State: one record of fields per tool invocation.                        *)
(***************************************************************************)

VARIABLES
    pc,             \* "idle", "awaiting" (suspended at the await, worker thread
                    \* running), "ready" (worker finished), "done" (returned)
    query,          \* the arguments of the invocation
    awaited,        \* what the worker thread's backend call returned or raised
    ret,            \* how the tool call ended: Return(list) or Raise(...)
    selection,      \* the tool's selection before the cap, when it ended
    top_n_flights,  \* the tool's local top_n_flights when it ended
    backend_calls,  \* the filters passed to get_flights_from_filter, in order
    date_in,        \* a display date handed to expand_date (its parts and shape)
    expanded,       \* what expand_date made of it
    duration_in,    \* the tokens of a flight's duration string
    duration_out    \* format_flight_info's duration_formatted for it, "-" before

toolVars == <<pc, query, awaited, ret, selection, top_n_flights, backend_calls>>

dateVars == <<date_in, expanded>>

durationVars == <<duration_in, duration_out>>

vars == <<pc, query, awaited, ret, selection, top_n_flights, backend_calls, date_in, expanded, duration_in, duration_out>>

NoOutcome == [kind |-> "none", value |-> <<>>, exc |-> "", detail |-> ""]

\* No tool call in progress.
InitTools ==
    /\ pc = [i \in Invocations |-> "idle"]
    /\ query = [i \in Invocations |-> NoQuery]
    /\ awaited = [i \in Invocations |-> NoOutcome]
    /\ ret = [i \in Invocations |-> NoOutcome]
    /\ selection = [i \in Invocations |-> <<>>]
    /\ top_n_flights = [i \in Invocations |-> <<>>]
    /\ backend_calls = [i \in Invocations |-> <<>>]

Init ==
    /\ InitTools
    /\ date_in = NoDate
    /\ expanded = NoOutcome
    /\ duration_in = NoDuration
    /\ duration_out = "-"

\* A call that ends before its try block reaches create_filter.
Reject(i, q, rejected) ==
    /\ pc' = [pc EXCEPT ![i] = "done"]
    /\ ret' = [ret EXCEPT ![i] = Return(rejected)]
    /\ UNCHANGED backend_calls

\* A call that hands get_flights_from_filter to a worker thread and awaits it.
StartBackend(i, q) ==
    /\ pc' = [pc EXCEPT ![i] = "awaiting"]
    /\ backend_calls' = [backend_calls EXCEPT ![i] = Append(@, create_filter(q))]
    /\ UNCHANGED ret

\* Entry with the backend call started before the arguments are checked.
EnterCallFirst(i, q, rejected) ==
    /\ backend_calls' = [backend_calls EXCEPT ![i] = Append(@, create_filter(q))]
    /\ IF rejected # <<>>
       THEN /\ pc' = [pc EXCEPT ![i] = "done"]
            /\ ret' = [ret EXCEPT ![i] = Return(rejected)]
       ELSE /\ pc' = [pc EXCEPT ![i] = "awaiting"]
            /\ UNCHANGED ret

\* The checks first, the backend call only when none rejects the query.
Enter(i, q, rejected) ==
    IF rejected # <<>> THEN Reject(i, q, rejected) ELSE StartBackend(i, q)

\* The backend call made in the coroutine itself: the event loop's thread is
\* inside get_flights_from_filter until the call returns.
occupies_loop_direct_call(p) == p \in {"awaiting", "hung"}

\* Whether an invocation at p keeps the event loop's thread. A coroutine runs
\* from one await to the next in one step, and `await asyncio.to_thread(...)`
\* puts the backend call on a worker thread, so that no invocation keeps the
\* loop between steps.
occupies_loop(p) == p \in {}

\* The event loop can run a coroutine.
LoopFree == \A j \in Invocations : ~occupies_loop(pc[j])

\* A tool is called with q and runs to its first return or to the await.
Invoke(i, q) ==
    /\ LoopFree
    /\ pc[i] = "idle"
    /\ query' = [query EXCEPT ![i] = q]
    /\ Enter(i, q, rejection(q))
    /\ UNCHANGED <<awaited, selection, top_n_flights, date_in, expanded, durationVars>>

\* The worker thread's get_flights_from_filter call ends with outcome b.
BackendDone(i, b) ==
    /\ pc[i] = "awaiting"
    /\ awaited' = [awaited EXCEPT ![i] = b]
    /\ pc' = [pc EXCEPT ![i] = "ready"]
    /\ UNCHANGED <<query, ret, selection, top_n_flights, backend_calls, date_in, expanded, durationVars>>

\* The lines returned so far by the invocations of a set, in any one order.
RECURSIVE LinesOf(_)
LinesOf(js) ==
    IF js = {} THEN <<>>
    ELSE LET j == CHOOSE k \in js : TRUE IN ret[j].value \o LinesOf(js \ {j})

\* The return with flight_info kept in one module-level list: the lines of the
\* calls that returned before stay in it.
FinishSharedList(i, y) ==
    /\ ret' = [ret EXCEPT ![i] =
                  Return(LinesOf({j \in Invocations : pc[j] = "done"}) \o except(y.out).value)]
    /\ selection' = [selection EXCEPT ![i] = y.selection]
    /\ top_n_flights' = [top_n_flights EXCEPT ![i] = y.top_n]
    /\ pc' = [pc EXCEPT ![i] = "done"]

\* The coroutine returns what its try block or its except clauses return.
Finish(i, y) ==
    /\ ret' = [ret EXCEPT ![i] = except(y.out)]
    /\ selection' = [selection EXCEPT ![i] = y.selection]
    /\ top_n_flights' = [top_n_flights EXCEPT ![i] = y.top_n]
    /\ pc' = [pc EXCEPT ![i] = "done"]

\* The scheduler resumes the coroutine, which runs to its return.
Resume(i) ==
    /\ LoopFree
    /\ pc[i] = "ready"
    /\ Finish(i, after_await(query[i], awaited[i]))
    /\ UNCHANGED <<query, awaited, backend_calls, date_in, expanded, durationVars>>

\* One caller: the tools called one at a time.
Caller == 1

Next ==
    \/ \E q \in Queries : Invoke(Caller, q)
    \/ \E b \in BackendOutcomes : BackendDone(Caller, b)
    \/ Resume(Caller)

Spec == Init /\ [][Next]_vars

(***************************************************************************)
(* Concurrent tool calls on one event loop                                 *)
(***************************************************************************)

\* The worker thread's get_flights_from_filter call never returns.
Hang(i) ==
    /\ pc[i] = "awaiting"
    /\ pc' = [pc EXCEPT ![i] = "hung"]
    /\ UNCHANGED <<query, awaited, ret, selection, top_n_flights, backend_calls, dateVars, durationVars>>

ConcQueries ==
    {Query("general", "JFK", "FCO", "2025-04-05", "one-way", "economy", "", "", 1),
     Query("best", "JFK", "FCO", "2025-04-05", "one-way", "coach", "", "", DefaultNFlights),
     Query("time", "JFK", "FCO", "2025-04-05", "one-way", "economy", "after", "7:00 PM",
           DefaultNFlights)}

ConcOutcomes ==
    {Return(ResultObj("typical", <<F1, F2>>)),
     Return(ResultObj("low", <<F3>>)),
     Raise("httpx.ConnectError", "All connection attempts failed")}

InvokeAny(i) == \E q \in ConcQueries : Invoke(i, q)

BackendDoneAny(i) == \E b \in ConcOutcomes : BackendDone(i, b)

NextConc ==
    \E i \in Invocations :
        \/ InvokeAny(i)
        \/ BackendDoneAny(i)
        \/ Hang(i)
        \/ Resume(i)

\* The server starts a coroutine for every request it received; the event loop
\* runs every coroutine that is ready; a backend call that does not hang
\* returns or raises.
\* Resume(i) as far as pc goes: a step is a Resume(i) step exactly when it is
\* a RunReady(i) step, and the two are enabled in the same states.
RunReady(i) ==
    /\ LoopFree
    /\ pc[i] = "ready"
    /\ pc' = [pc EXCEPT ![i] = "done"]

FairConc ==
    \A i \in Invocations :
        /\ WF_vars(InvokeAny(i))
        /\ WF_vars(BackendDoneAny(i))
        /\ WF_pc(RunReady(i))

SpecConc == Init /\ [][NextConc]_vars /\ FairConc

(***************************************************************************)
(* expand_date applied to one display date                                 *)
(***************************************************************************)

InitDate ==
    /\ InitTools
    /\ date_in \in DisplayDates
    /\ expanded = NoOutcome
    /\ duration_in = NoDuration
    /\ duration_out = "-"

ExpandDate ==
    /\ expanded = NoOutcome
    /\ expanded' = expand_date(date_str(date_in))
    /\ UNCHANGED <<toolVars, date_in, durationVars>>

NextDate == ExpandDate

SpecDate == InitDate /\ [][NextDate]_vars

(***************************************************************************)
(* The duration step of format_flight_info applied to one duration string  *)
(***************************************************************************)

InitDuration ==
    /\ InitTools
    /\ date_in = NoDate
    /\ expanded = NoOutcome
    /\ duration_in \in DurationInputs
    /\ duration_out = "-"

FormatDuration ==
    /\ duration_out = "-"
    /\ duration_out' = duration_formatted(duration_str(duration_in))
    /\ UNCHANGED <<toolVars, dateVars, duration_in>>

NextDuration == FormatDuration

SpecDuration == InitDuration /\ [][NextDuration]_vars

(***************************************************************************)
(* Properties                                                              *)
(***************************************************************************)

\* The constraints on a query in the order of the specification; the last
\* two are constraints of the time-filtered tool only.
DateShape(d) == Len(d) = 10 /\ SubSeq(d, 5, 5) = "-" /\ SubSeq(d, 8, 8) = "-"

Checks(q) ==
    << [bad |-> Len(q.origin) # 3 \/ Len(q.destination) # 3, msg |-> MsgCodes],
       [bad |-> ~DateShape(q.departure_date), msg |-> MsgDate],
       [bad |-> q.trip_type \notin {"one-way", "round-trip"}, msg |-> MsgTrip],
       [bad |-> q.seat \notin {"economy", "premium-economy", "business", "first"},
        msg |-> MsgSeat],
       [bad |-> q.tool = "time" /\ q.state \notin {"before", "after"}, msg |-> MsgState],
       [bad |-> q.tool = "time" /\ strptime(q.target_time_str).kind = "raise",
        msg |-> MsgTime] >>

Violated(q) == {k \in DOMAIN Checks(q) : Checks(q)[k].bad}

FirstViolated(q) == CHOOSE k \in Violated(q) : \A j \in Violated(q) : k <= j

Called(i) == pc[i] # "idle"

Done(i) == pc[i] = "done"

\* C1: a call whose query violates one or more constraints returns exactly one
\* string, the rejection message of the first violated check in the order
\* codes, date shape, trip type, seat, state, target time.
C1_FirstRejection ==
    \A i \in Invocations :
        Called(i) /\ Violated(query[i]) # {} =>
            /\ Done(i)
            /\ ret[i] = Return(<<Checks(query[i])[FirstViolated(query[i])].msg>>)

\* A finished call with a two-letter origin and a malformed date, answered
\* with the airport-code message.
C1_Witness ==
    \E i \in Invocations :
        /\ Done(i)
        /\ query[i].origin = "JF"
        /\ {1, 2} \subseteq Violated(query[i])
        /\ ret[i] = Return(<<"Origin and destination must be 3 characters.">>)

\* C2: one tool call makes no backend call when its query fails validation and
\* exactly one when it passes, none of them before the checks have passed; a
\* backend failure is followed by a single error string and no second call.
C2_BackendCalls ==
    \A i \in Invocations :
        /\ Len(backend_calls[i]) = (IF Called(i) /\ Violated(query[i]) = {} THEN 1 ELSE 0)
        /\ Done(i) /\ awaited[i].kind = "raise" =>
               /\ Len(backend_calls[i]) = 1
               /\ ret[i].kind = "return"
               /\ Len(ret[i].value) = 1

\* A finished call whose one backend call failed.
C2_Witness ==
    \E i \in Invocations :
        /\ Done(i)
        /\ awaited[i].kind = "raise"
        /\ Len(backend_calls[i]) = 1
        /\ Len(ret[i].value) = 1

\* The message a failure is reported with, by its class.
CategoryMsg(exc, detail) ==
    IF exc \in {"httpx.RequestError", "httpx.ConnectError"}
    THEN "Unable to connect to the flight search service. Please try again later."
    ELSE IF exc \in {"ValueError", "json.JSONDecodeError"}
    THEN "Invalid data received: " \o detail
    ELSE "An unexpected error occurred while searching for flights: " \o detail

\* The failure the try block of a resumed call ended with, if any.
Failure(i) == after_await(query[i], awaited[i]).out

Resumed(i) == Done(i) /\ awaited[i].kind # "none"

\* C3: no tool call ends by raising; it returns a non-empty list, and a
\* failure of the backend call or of the processing after it becomes a
\* one-element list with the message of the failure's class.
C3_NeverRaises ==
    \A i \in Invocations :
        Done(i) =>
            /\ ret[i].kind = "return"
            /\ Len(ret[i].value) >= 1
            /\ Resumed(i) /\ awaited[i].kind = "raise" =>
                   ret[i].value = <<CategoryMsg(awaited[i].exc, awaited[i].detail)>>
            /\ Resumed(i) /\ Failure(i).kind = "raise" =>
                   ret[i].value = <<CategoryMsg(Failure(i).exc, Failure(i).detail)>>

\* A finished call whose backend call succeeded and whose processing of the
\* records raised an exception that is neither of the two named classes.
C3_Witness ==
    \E i \in Invocations :
        /\ Resumed(i)
        /\ awaited[i].kind = "return"
        /\ Failure(i).kind = "raise"
        /\ Failure(i).exc \notin RequestErrors \cup ValueErrors
        /\ ret[i].kind = "return"

\* The header of the tool of query q, for a backend price figure.
IsHeader(h, q) ==
    CASE q.tool = "general" -> \E b \in BackendOutcomes :
                                   /\ b.kind = "return"
                                   /\ h = HeaderGeneral(b.value.current_price)
      [] q.tool = "cheapest" -> h = HeaderCheapest
      [] q.tool = "best" -> h = HeaderBest
      [] q.tool = "time" -> h = HeaderTime(q.state, q.target_time_str)
      [] OTHER -> FALSE

Formats(f, q) == format_flight_info(f, q.origin, q.destination)

\* The value is a header followed by the line of every record of recs.
HeaderAndLines(v, recs, q) ==
    /\ Len(v) = 1 + Len(recs)
    /\ IsHeader(v[1], q)
    /\ \A k \in DOMAIN recs :
           /\ Formats(recs[k], q).kind = "return"
           /\ v[k + 1] = Formats(recs[k], q).value

\* C4: a returned value is a header followed by one line per selected record,
\* or exactly one string, never a mix; when a selected record fails to format
\* the value is the single error string, without header and without lines.
C4_NoPartialResult ==
    \A i \in Invocations :
        Done(i) =>
            /\ \/ Len(ret[i].value) = 1
               \/ HeaderAndLines(ret[i].value, top_n_flights[i], query[i])
            /\ (\E k \in DOMAIN top_n_flights[i] :
                    Formats(top_n_flights[i][k], query[i]).kind = "raise") =>
                   /\ Len(ret[i].value) = 1
                   /\ ~IsHeader(ret[i].value[1], query[i])
                   /\ \E k \in DOMAIN top_n_flights[i] :
                          /\ Formats(top_n_flights[i][k], query[i]).kind = "raise"
                          /\ ret[i].value =
                                 <<CategoryMsg(Formats(top_n_flights[i][k], query[i]).exc,
                                               Formats(top_n_flights[i][k], query[i]).detail)>>

\* A finished call in which the first selected record formats and a later
\* one does not.
C4_Witness ==
    \E i \in Invocations :
        /\ Done(i)
        /\ Len(top_n_flights[i]) >= 2
        /\ Formats(top_n_flights[i][1], query[i]).kind = "return"
        /\ \E k \in 2..Len(top_n_flights[i]) :
               Formats(top_n_flights[i][k], query[i]).kind = "raise"
        /\ Len(ret[i].value) = 1

\* The flights of a backend answer that is a Result, <<>> for any other.
Flights(i) ==
    IF awaited[i].kind = "return" /\ awaited[i].value.type = "Result"
    THEN awaited[i].value.flights
    ELSE <<>>

\* A finished call of the given tool whose backend call gave a non-empty list.
Served(i, tool) == Done(i) /\ query[i].tool = tool /\ Len(Flights(i)) > 0

\* The first n elements of a sequence (all of them when it is shorter).
FirstN(seq, n) == SubSeq(seq, 1, IF n < Len(seq) THEN n ELSE Len(seq))

\* When lines were returned, they are the header of the tool and the lines of
\* top_n_flights.
LinesOfTopN(i) ==
    Len(ret[i].value) > 1 => HeaderAndLines(ret[i].value, top_n_flights[i], query[i])

\* The prices of the model's records as numbers; a price string that is not
\* listed is not a number.
KnownPrices ==
    {<<"$320", 320>>, <<"$1,050", 1050>>, <<"$99", 99>>, <<"$80", 80>>, <<"$70", 70>>}
    \cup {<<LongList[k].price, 900 - 10 * k>> : k \in DOMAIN LongList}

\* The derived price of a record: its number in hundredths, or infinity.
PriceKey(f) ==
    IF \E pr \in KnownPrices : pr[1] = f.price
    THEN Finite(100 * (CHOOSE pr \in KnownPrices : pr[1] = f.price)[2])
    ELSE Inf

KeyLess(a, b) == ~a.inf /\ (b.inf \/ a.cents < b.cents)

\* The records of a list with a given derived price, in the list's order.
PriceClass(seq, c) == SelectSeq(seq, LAMBDA f : PriceKey(f) = c)

IsPrefix(a, b) == Len(a) <= Len(b) /\ a = SubSeq(b, 1, Len(a))

\* top is the first min(30, n) records of fl in ascending order of derived
\* price, records of equal derived price in their order in fl.
CheapestFirst(top, fl) ==
    /\ Len(top) = (IF Len(fl) < 30 THEN Len(fl) ELSE 30)
    /\ \A a \in DOMAIN top : \A b \in DOMAIN top :
           a < b => ~KeyLess(PriceKey(top[b]), PriceKey(top[a]))
    /\ \A c \in {PriceKey(fl[k]) : k \in DOMAIN fl} \cup {PriceKey(top[k]) : k \in DOMAIN top} :
           /\ IsPrefix(PriceClass(top, c), PriceClass(fl, c))
           /\ (\E k \in DOMAIN top : KeyLess(c, PriceKey(top[k]))) =>
                  PriceClass(top, c) = PriceClass(fl, c)

\* C5: cheapest mode returns the first min(30, n) records in ascending order of
\* derived price; a placeholder, empty or unparseable price sorts behind every
\* number, and records of equal derived price keep their input order.
C5_CheapestStable ==
    \A i \in Invocations :
        Served(i, "cheapest") =>
            /\ CheapestFirst(top_n_flights[i], Flights(i))
            /\ \A a \in DOMAIN top_n_flights[i] : \A b \in DOMAIN top_n_flights[i] :
                   /\ a < b
                   /\ top_n_flights[i][a].price \in {"Price unavailable", "", "N/A"}
                   => top_n_flights[i][b].price \in {"Price unavailable", "", "N/A"}
            /\ LinesOfTopN(i)

\* A finished cheapest call on a list that starts with a record without a price
\* and goes on with two records of the same price: the two come first, in
\* their input order.
C5_Witness ==
    \E i \in Invocations :
        /\ Served(i, "cheapest")
        /\ Flights(i) = <<F4, F3, F1>>
        /\ top_n_flights[i] = <<F3, F1, F4>>
        /\ Len(ret[i].value) = 4

\* The records of a list with the best flag, in the list's order.
BestSubset(fl) == SelectSeq(fl, LAMBDA f : f.is_best = TRUE)

\* C6 as stated: best mode returns exactly the flagged records, none missing,
\* or the "no best flights" message when there is none.
C6_Original ==
    \A i \in Invocations :
        Served(i, "best") =>
            IF BestSubset(Flights(i)) = <<>>
            THEN ret[i].value = <<"No best flights found for the specified route and dates.">>
            ELSE top_n_flights[i] = BestSubset(Flights(i))

\* C6 amended: best mode returns the first min(30, m) of the m flagged records,
\* in input order and with no unflagged record, or the "no best flights"
\* message when there is none.
C6_BestCapped ==
    \A i \in Invocations :
        Served(i, "best") =>
            IF BestSubset(Flights(i)) = <<>>
            THEN ret[i].value = <<"No best flights found for the specified route and dates.">>
            ELSE /\ top_n_flights[i] = FirstN(BestSubset(Flights(i)), 30)
                 /\ LinesOfTopN(i)
                 /\ Len(ret[i].value) = 1 =>
                        \E k \in DOMAIN top_n_flights[i] :
                            Formats(top_n_flights[i][k], query[i]).kind = "raise"

\* A finished best call whose list holds more than 30 flagged records.
C6_Witness ==
    \E i \in Invocations :
        /\ Served(i, "best")
        /\ Len(BestSubset(Flights(i))) > 30
        /\ Len(top_n_flights[i]) = 30
        /\ Len(ret[i].value) = 31

\* The clock times of the model's departure strings and target times, in
\* minutes of the day; a string that is not listed has no clock time.
KnownDepartures ==
    {<<"9:40 AM on Sat, Apr 5", 580>>, <<"7:00 PM on Sat, Apr 5", 1140>>,
     <<"11:15 PM on Sat, Apr 5", 1395>>, <<"6:05 AM on Sat, Apr 5", 365>>,
     <<"9:40 AM Sat, Apr 5", 580>>, <<"12:30 PM on Sat, Apr 5", 750>>,
     <<"8:00 AM on Sat, Apr 5", 480>>}

KnownTargets == {<<"7:00 PM", 1140>>, <<"9:40 AM", 580>>, <<"12:00 am", 0>>}

HasClock(f) == \E d \in KnownDepartures : d[1] = f.departure

Clock(f) == (CHOOSE d \in KnownDepartures : d[1] = f.departure)[2]

Target(q) == (CHOOSE t \in KnownTargets : t[1] = q.target_time_str)[2]

\* The records of fl in the window of q, in the list's order.
Window(fl, q) ==
    SelectSeq(fl, LAMBDA f : IF q.state = "before" THEN Clock(f) < Target(q)
                             ELSE Clock(f) >= Target(q))

AllClocks(fl) == \A k \in DOMAIN fl : HasClock(fl[k])

NoneInWindow(q) ==
    "No flights found " \o q.state \o " " \o q.target_time_str
    \o " for the specified route and dates."

C8_Original ==
    \A i \in Invocations :
        Served(i, "general") =>
            /\ Len(top_n_flights[i]) <= Max(0, query[i].n_flights)
            /\ top_n_flights[i] =
                   SubSeq(Flights(i), 1, Max(0, Min(query[i].n_flights, Len(Flights(i)))))
            /\ Len(ret[i].value) > 1 =>
                   /\ HeaderAndLines(ret[i].value, top_n_flights[i], query[i])
                   /\ ret[i].value[1] =
                          "The current overall flight prices for this route and time are: "
                          \o awaited[i].value.current_price \o "."

\* C9: in every mode, a backend answer with zero flights is answered with the
\* "no flights found" message alone, before any mode-specific step: nothing
\* is selected and no mode-specific message is produced.
C9_EmptyShortCircuit ==
    \A i \in Invocations :
        /\ Done(i)
        /\ awaited[i].kind = "return"
        /\ awaited[i].value.type = "Result"
        /\ awaited[i].value.flights = <<>>
        => /\ ret[i] = Return(<<"No flights found for the specified route and dates.">>)
           /\ selection[i] = <<>>
           /\ top_n_flights[i] = <<>>

\* A finished best call whose backend answer held no flights.
C9_Witness ==
    \E i \in Invocations :
        /\ Done(i)
        /\ query[i].tool = "best"
        /\ awaited[i].kind = "return"
        /\ awaited[i].value.type = "Result"
        /\ awaited[i].value.flights = <<>>
        /\ ret[i].value = <<"No flights found for the specified route and dates.">>

\* Full names, and the ordinal of a day number.
FullNames ==
    {<<"Mon", "Monday">>, <<"Tue", "Tuesday">>, <<"Wed", "Wednesday">>,
     <<"Thu", "Thursday">>, <<"Fri", "Friday">>, <<"Sat", "Saturday">>,
     <<"Sun", "Sunday">>, <<"Jan", "January">>, <<"Feb", "February">>,
     <<"Mar", "March">>, <<"Apr", "April">>, <<"May", "May">>, <<"Jun", "June">>,
     <<"Jul", "July">>, <<"Aug", "August">>, <<"Sep", "September">>,
     <<"Oct", "October">>, <<"Nov", "November">>, <<"Dec", "December">>}

FullName(a) == (CHOOSE n \in FullNames : n[1] = a)[2]

Ordinal(d) ==
    IF d % 100 \in {11, 12, 13} \/ d % 10 \notin {1, 2, 3} THEN "th"
    ELSE IF d % 10 = 1 THEN "st"
    ELSE IF d % 10 = 2 THEN "nd"
    ELSE "rd"

\* "<time> on <full weekday>, <full month> <day+ordinal>"
Expansion(dd) ==
    dd.time \o " on " \o FullName(dd.weekday) \o ", " \o FullName(dd.month) \o " "
    \o ToString(dd.day) \o Ordinal(dd.day)

\* C10 as stated: a display string of the five-token shape
\* "<H:MM AM/PM> <weekday>, <month> <day>" is expanded to
\* "<time> on <full weekday>, <full month> <day+ordinal>".
C10_Original ==
    expanded # NoOutcome /\ date_in.shape = "five" =>
        expanded = Return(Expansion(date_in))

\* C10 amended: the expansion holds for the six-token shape
\* "<H:MM AM/PM> on <weekday>, <month> <day>", whose third token is skipped;
\* the five-token shape raises IndexError.
C10_ExpandSixTokens ==
    expanded # NoOutcome =>
        IF date_in.shape = "six"
        THEN expanded = Return(Expansion(date_in))
        ELSE expanded.kind = "raise" /\ expanded.exc = "IndexError"

\* "2:15 PM on Mon, Nov 22" expanded.
C10_Witness ==
    /\ date_str(date_in) = "2:15 PM on Mon, Nov 22"
    /\ expanded = Return("2:15 PM on Monday, November 22nd")

\* C11 as stated: a duration is rewritten to "<hours> hours and <minutes>
\* minutes" only when it has exactly four tokens of which the second is
\* "hours" and the fourth is "minutes"; every other string is passed through.
C11_Original ==
    duration_out # "-" =>
        duration_out =
            IF /\ Len(duration_in) = 4
               /\ duration_in[2] = "hours"
               /\ duration_in[4] = "minutes"
            THEN duration_in[1] \o " hours and " \o duration_in[3] \o " minutes"
            ELSE duration_str(duration_in)

\* C11 amended: a duration is rewritten to "<1st token> hours and <3rd token>
\* minutes" exactly when it has four tokens, whatever the second and the
\* fourth are; a string of fewer or more tokens is passed through unchanged.
C11_FourTokens ==
    duration_out # "-" =>
        duration_out =
            IF Len(duration_in) = 4
            THEN duration_in[1] \o " hours and " \o duration_in[3] \o " minutes"
            ELSE duration_str(duration_in)

\* "4 hr 30 min" rewritten.
C11_Witness ==
    /\ duration_in = <<"4", "hr", "30", "min">>
    /\ duration_out = "4 hours and 30 minutes"

\* C12: when the backend call of one invocation hangs, every other invocation
\* whose own backend call does not hang is eventually done, having made its
\* backend call (unless its arguments were rejected) and returned a list.
C12_NoStarvation ==
    \A i \in Invocations :
        ((\E j \in Invocations \ {i} : pc[j] = "hung") /\ pc[i] # "hung")
        ~> (\/ pc[i] = "hung"
            \/ /\ pc[i] = "done"
               /\ ret[i].kind = "return"
               /\ rejection(query[i]) = <<>> => Len(backend_calls[i]) = 1 /\ awaited[i] # NoOutcome)

\* One invocation's backend call hangs and another, whose call returned two
\* flights, has returned its header and a line.
C12_Witness ==
    \E i \in Invocations : \E j \in Invocations \ {i} :
        /\ pc[j] = "hung"
        /\ pc[i] = "done"
        /\ Len(backend_calls[i]) = 1
        /\ awaited[i] = Return(ResultObj("typical", <<F1, F2>>))
        /\ Len(ret[i].value) = 2

\* What an invocation with arguments q returns when it runs alone and its
\* backend call ends with b.
Alone(q, b) ==
    IF rejection(q) # <<>> THEN Return(rejection(q)) ELSE except(after_await(q, b).out)

\* The fields of invocation j are the same before and after a step.
Untouched(j) ==
    /\ pc'[j] = pc[j]
    /\ query'[j] = query[j]
    /\ awaited'[j] = awaited[j]
    /\ ret'[j] = ret[j]
    /\ selection'[j] = selection[j]
    /\ top_n_flights'[j] = top_n_flights[j]
    /\ backend_calls'[j] = backend_calls[j]

\* C13: in every interleaving of concurrent invocations, a step of one
\* invocation leaves the arguments, backend answer, selection and result of
\* every other invocation as they were; an invocation's arguments and backend
\* answer, once set, stay as they are; its backend call is made with a filter
\* of its own arguments; and what it returns is what it returns when it runs
\* alone with the same arguments and the same backend answer.
C13_Isolation ==
    [][/\ \E i \in Invocations : \A j \in Invocations \ {i} : Untouched(j)
       /\ \A i \in Invocations :
              /\ pc[i] # "idle" => query'[i] = query[i]
              /\ awaited[i] # NoOutcome => awaited'[i] = awaited[i]
              /\ pc[i] = "done" => Untouched(i)
              /\ backend_calls'[i] \in {<<>>, <<create_filter(query'[i])>>}
              /\ pc'[i] = "done" => ret'[i] = Alone(query'[i], awaited'[i])]_vars

\* Two invocations of different tools, both returned, each with the header of
\* its own tool and the lines of its own backend answer.
C13_Witness ==
    \E i \in Invocations : \E j \in Invocations \ {i} :
        /\ pc[i] = "done" /\ pc[j] = "done"
        /\ query[i].tool = "general" /\ query[j].tool = "time"
        /\ awaited[i] = Return(ResultObj("typical", <<F1, F2>>))
        /\ awaited[j] = Return(ResultObj("low", <<F3>>))
        /\ HeaderAndLines(ret[i].value, <<F1>>, query[i])
        /\ HeaderAndLines(ret[j].value, <<F3>>, query[j])

\* C14: a list returned by the cheapest, best or time-filtered tool holds at
\* most 30 flight lines (31 elements with the header), and when more than 30
\* records were selected the lines, when lines are returned, are those of the
\* first 30 selected records, in the order of the selection.
C14_FixedCap ==
    \A i \in Invocations :
        Done(i) /\ query[i].tool \in {"cheapest", "best", "time"} =>
            /\ Len(ret[i].value) <= 31
            /\ Len(top_n_flights[i]) <= 30
            /\ Len(selection[i]) > 30 =>
                   /\ top_n_flights[i] = SubSeq(selection[i], 1, 30)
                   /\ Len(ret[i].value) > 1 =>
                          /\ Len(ret[i].value) = 31
                          /\ \A k \in 1..30 :
                                 ret[i].value[k + 1] = Formats(selection[i][k], query[i]).value

\* A finished time-filtered call that selected more than 30 records.
C14_Witness ==
    \E i \in Invocations :
        /\ Done(i)
        /\ query[i].tool = "time"
        /\ Len(selection[i]) > 30
        /\ Len(ret[i].value) = 31
        /\ ret[i].value[31] = Formats(selection[i][30], query[i]).value

\* The records of the model whose departure string is not of the shape
\* "<H:MM AM/PM> on <weekday>, <month> <day>": too few tokens (F5, FShort), no
\* clock time in front (FBadTime), unknown weekday and month (FUnknownDay).
DriftRecords == {F5, FShort, FBadTime, FUnknownDay}

StartsWith(str, prefix) ==
    Len(str) >= Len(prefix) /\ SubSeq(str, 1, Len(prefix)) = prefix

\* C15: when a record the tool formats has a departure string that deviates
\* from the expected shape, the tool returns the single message "Invalid data
\* received: ...": no "unexpected error" message and no flight lines.
C15_Original ==
    \A i \in Invocations :
        /\ Done(i)
        /\ \E k \in DOMAIN top_n_flights[i] : top_n_flights[i][k] \in DriftRecords
        => /\ Len(ret[i].value) = 1
           /\ StartsWith(ret[i].value[1], "Invalid data received: ")

\* C16: when the backend call returns without raising and what it returns is
\* absent (None) or has no flights field, the tool returns the single message
\* "No flight data available for the specified route and dates." and none of
\* the three error messages.
C16_Original ==
    \A i \in Invocations :
        /\ Done(i)
        /\ awaited[i].kind = "return"
        /\ awaited[i].value.type = "None" \/ "flights" \notin awaited[i].value.fields
        => ret[i] = Return(<<"No flight data available for the specified route and dates.">>)

====
